---- MODULE Spec2Model ----
(***************************************************************************)
(* Upwork tracker proxy server: the TTL response cache (getCached,         *)
(* setCache, cache.clear), the Apify remote-job runner (runApifyActor),    *)
(* and the handlers of the search, batch and generate-proposal endpoints.  *)
(*                                                                         *)
(* Two server files exist in the repository.  version "1.0.0" is           *)
(* src/server.js (RSS proxy, 5 minute TTL, has POST /api/cache/clear);     *)
(* version "2.1.0" is src/unnamed/part_000 lines 181-532 (Apify runner,    *)
(* 10 minute TTL, no clear endpoint).  getCached and setCache are the same *)
(* code in both.  src/unnamed/part_000 lines 1-180 hold version "2.0.0",   *)
(* whose cache, runner, search and batch are those of 2.1.0 and which also *)
(* has GET /api/upwork/category.                                           *)
(***************************************************************************)
EXTENDS Integers, Sequences, FiniteSets, TLC

VARIABLES
    version,          \* which server file is the running process
    APIFY_API_TOKEN,  \* TRUE when process.env.APIFY_API_TOKEN is set
    listening,        \* TRUE once app.listen has been called
    now,              \* Date.now(), in milliseconds since the process started
    ticks,            \* number of clock advances taken so far
    cache,            \* the Map: key -> {data, expiry}, or undefined
    last,             \* the most recent cache call: its arguments, locals, result
    run,              \* the current invocation of runApifyActor
    ANTHROPIC_API_KEY, \* TRUE when process.env.ANTHROPIC_API_KEY is set
    prop,             \* the POST /api/generate-proposal request being handled
    req,              \* the search, category and batch requests being handled
    jobs,             \* the actor runs the upstream has created so far
    batch             \* the POST /api/upwork/batch request being handled

\* The state of the handlers, which the cache calls and a bare invocation of
\* the runner leave alone.
handlers == <<ANTHROPIC_API_KEY, prop, req, jobs, batch>>

vars == <<version, APIFY_API_TOKEN, listening, now, ticks, cache, last, run,
          ANTHROPIC_API_KEY, prop, req, jobs, batch>>

----------------------------------------------------------------------------
(* Bounds of the model *)

MaxTicks == 4

\* The counters of outbound calls stop counting here ("more than 30").
MaxCount == 31

\* The longest list of required skills a scored posting carries.
MaxSkills == 3

\* How many times the upstream reports a search run as still running.
MaxPolls == 1

\* The longest list of keywords a batch request carries.
MaxBatch == 3

Keys == {"search:react", "category:web"}
Payloads == {"jobsA", "jobsB"}

----------------------------------------------------------------------------
(* Program constants *)

Versions == {"1.0.0", "2.1.0"}

CACHE_TTL_RSS == 5 * 60 * 1000
CACHE_TTL == 10 * 60 * 1000

\* The CACHE_TTL the running file declares.
TTL(v) == IF v = "1.0.0" THEN CACHE_TTL_RSS ELSE CACHE_TTL

MaxAttempts == 30

\* keywords.slice(0, 10)
BatchLimit == 10

----------------------------------------------------------------------------
(* The cache *)

undefined == [absent |-> TRUE]
null == "null"

Item(d, e) == [data |-> d, expiry |-> e]

EmptyCache == [k \in Keys |-> undefined]

\* An expiry test that already expires the entry at now = expiry.
Expired_AtExpiry(item, t) == t >= item.expiry

\* Date.now() > item.expiry
Expired(item, t) == t > item.expiry

\* The value getCached(key) returns at time t.
getCachedResult(c, key, t) ==
    LET item == c[key] IN
    IF item = undefined THEN null
    ELSE IF Expired(item, t) THEN null
    ELSE item.data

\* A lookup that never deletes.
getCachedStore_NoDelete(c, key, t) == c

\* A lookup that gives the entry it hits a new life of CACHE_TTL.
getCachedStore_Refresh(c, key, t) ==
    LET item == c[key] IN
    IF item = undefined THEN c
    ELSE IF Expired(item, t) THEN [c EXCEPT ![key] = undefined]
    ELSE [c EXCEPT ![key].expiry = t + CACHE_TTL]

\* The cache after getCached(key) at time t: cache.delete(key) on an expired item.
getCachedStore(c, key, t) ==
    LET item == c[key] IN
    IF item = undefined THEN c
    ELSE IF Expired(item, t) THEN [c EXCEPT ![key] = undefined]
    ELSE c

\* An expiry that is not measured from the time of the write.
NewExpiry_FromStart(t, ttl) == ttl

\* The expiry setCache gives an entry written at time t.
NewExpiry(t, ttl) == t + ttl

\* cache.set(key, {data, expiry: Date.now() + CACHE_TTL})
setCache(c, key, data, t, ttl) == [c EXCEPT ![key] = Item(data, NewExpiry(t, ttl))]

\* cache.clear()
cacheClear(c) == EmptyCache

\* The record of a cache call, without the call that preceded it.
Strip(call) == [f \in (DOMAIN call) \ {"prev"} |-> call[f]]

NoCall == [op |-> "none"]

\* No request is being handled.
NoRequest == [pc |-> "idle"]

----------------------------------------------------------------------------
(* The runner: runApifyActor(input), one record per invocation.            *)
(* pc is the await the invocation is suspended at: "submit" (the POST that *)
(* starts the actor run), "sleep" (the 2000 ms timer), "status" (the GET   *)
(* of the run), "fetch" (the GET of the dataset items); or how it ended:   *)
(* "returned" or "thrown".                                                 *)

ConfigurationError == "APIFY_API_TOKEN not configured"
UpstreamError == "Apify API error"
JobFailed == "Apify run FAILED"
JobAborted == "Apify run ABORTED"
TimedOut == "Apify run timed out"
\* statusData.data is undefined when the status reply carries no run object.
TypeError == "Cannot read properties of undefined"
\* itemsResponse.json() on a body that is not JSON.
InvalidJson == "invalid json response body"
NullTypeError == "Cannot read properties of null"
FetchFailed == "fetch failed"
ApiError(status) ==
    IF status = 401 THEN "Anthropic API error: 401" ELSE "Anthropic API error: 529"

\* What the upstream can answer to GET /v2/actor-runs/:id.
PendingStatuses == {"READY", "RUNNING", "TIMED-OUT"}
Statuses == PendingStatuses \cup {"SUCCEEDED", "FAILED", "ABORTED"}
NoData == "no data"
StatusReplies == [to : {"status"}, status : Statuses \cup {NoData}]

\* What the upstream can answer to the POST that starts the run.
SubmitReplies == [to : {"submit"}, ok : BOOLEAN]

\* What the upstream can answer to GET /v2/datasets/:id/items: the items, or a
\* non-success status with a JSON error body or with a body that is not JSON.
ErrorBody == "errorBody"
NotJson == "notJson"
FetchReplies ==
    [to : {"fetch"}, ok : {TRUE}, body : Payloads]
        \cup [to : {"fetch"}, ok : {FALSE}, body : {ErrorBody, NotJson}]

NoReply == [to |-> "none"]

\* One more outbound call counted.
Count(n) == IF n < MaxCount THEN n + 1 ELSE n

IdleRun ==
    [pc |-> "idle", attempts |-> 0, submitCalls |-> 0, statusCalls |-> 0,
     fetchCalls |-> 0, status |-> "none", error |-> "none", result |-> "none",
     reply |-> NoReply]

Return(r, v) == [r EXCEPT !.pc = "returned", !.result = v]
Throw(r, e) == [r EXCEPT !.pc = "thrown", !.error = e]

\* A call that joins the run of a request already in flight instead of
\* submitting one of its own.
RunCall_Shared(token) ==
    IF ~token THEN Throw(IdleRun, ConfigurationError)
    ELSE IF \E j \in DOMAIN req : req[j].pc = "running"
        THEN [IdleRun EXCEPT !.pc = "sleep"]
    ELSE [IdleRun EXCEPT !.pc = "submit", !.submitCalls = Count(@)]

\* The call without its credential check.
RunCall_NoTokenCheck(token) ==
    [IdleRun EXCEPT !.pc = "submit", !.submitCalls = Count(@)]

\* if (!APIFY_API_TOKEN) throw ...; otherwise the POST is issued.
RunCall(token) ==
    IF ~token THEN Throw(IdleRun, ConfigurationError)
    ELSE [IdleRun EXCEPT !.pc = "submit", !.submitCalls = Count(@)]

\* The loop guard off by one.
LoopGuard_OffByOne(attempts) == attempts <= MaxAttempts

\* while (attempts < 30)
LoopGuard(attempts) == attempts < MaxAttempts

\* The head of the poll loop: start the timer, or fall out of the loop.
LoopHead(r) ==
    IF LoopGuard(r.attempts) THEN [r EXCEPT !.pc = "sleep"]
    ELSE Throw(r, TimedOut)

\* The submission whose status is never looked at.
OnSubmitReply_IgnoreOk(r, reply) == LoopHead([r EXCEPT !.attempts = 0])

\* if (!runResponse.ok) throw ...; let attempts = 0; then the loop.
OnSubmitReply(r, reply) ==
    IF ~reply.ok THEN Throw(r, UpstreamError)
    ELSE LoopHead([r EXCEPT !.attempts = 0])

\* The timer fired: the status query is issued.
OnTimer(r) == [r EXCEPT !.pc = "status", !.statusCalls = Count(@)]

\* A failure test that forgets ABORTED.
IsFailure_FailedOnly(s) == s = "FAILED"

\* status === 'FAILED' || status === 'ABORTED'
IsFailure(s) == s = "FAILED" \/ s = "ABORTED"

\* A loop body that forgets attempts++.
OnStatusReply_NoIncrement(r, reply) ==
    LET s == reply.status
        seen == [r EXCEPT !.status = s]
    IN  IF s = NoData THEN Throw(seen, TypeError)
        ELSE IF s = "SUCCEEDED"
            THEN [seen EXCEPT !.pc = "fetch", !.fetchCalls = Count(@)]
        ELSE IF s = "FAILED" \/ s = "ABORTED"
            THEN Throw(seen, IF s = "FAILED" THEN JobFailed ELSE JobAborted)
        ELSE [seen EXCEPT !.pc = "sleep"]

\* A loop body that returns on SUCCEEDED without reading the dataset.
OnStatusReply_NoFetch(r, reply) ==
    LET s == reply.status
        seen == [r EXCEPT !.status = s]
    IN  IF s = NoData THEN Throw(seen, TypeError)
        ELSE IF s = "SUCCEEDED" THEN Return(seen, "statusData")
        ELSE IF s = "FAILED" \/ s = "ABORTED"
            THEN Throw(seen, IF s = "FAILED" THEN JobFailed ELSE JobAborted)
        ELSE LoopHead([seen EXCEPT !.attempts = @ + 1])

\* The body of the loop after the status reply arrived.
OnStatusReply(r, reply) ==
    LET s == reply.status
        seen == [r EXCEPT !.status = s]
    IN  IF s = NoData THEN Throw(seen, TypeError)
        ELSE IF s = "SUCCEEDED"
            THEN [seen EXCEPT !.pc = "fetch", !.fetchCalls = Count(@)]
        ELSE IF IsFailure(s)
            THEN Throw(seen, IF s = "FAILED" THEN JobFailed ELSE JobAborted)
        ELSE LoopHead([seen EXCEPT !.attempts = @ + 1])

\* return await itemsResponse.json(): itemsResponse.ok is never looked at.
OnFetchReply(r, reply) ==
    IF reply.body = NotJson THEN Throw(r, InvalidJson)
    ELSE Return(r, reply.body)

Ended(r) == r.pc \in {"returned", "thrown"}
InFlight(r) == r.pc \in {"submit", "sleep", "status", "fetch"}

----------------------------------------------------------------------------
(* POST /api/generate-proposal: the confidence score.                      *)
(* A string is a tuple of characters.  A field the request leaves out is   *)
(* not in the record's domain.  Amounts are whole numbers; a feedback      *)
(* rating is held in tenths (45 is the rating 4.5).                        *)

Has(rec, field) == field \in DOMAIN rec

\* String.prototype.toLowerCase, on the letters the model writes in upper case.
LowerChar(ch) ==
    CASE ch = "D" -> "d" [] ch = "G" -> "g" [] ch = "L" -> "l" [] ch = "M" -> "m"
      [] ch = "Q" -> "q" [] ch = "R" -> "r" [] ch = "S" -> "s" [] ch = "Y" -> "y" [] OTHER -> ch
toLowerCase(str) == [i \in DOMAIN str |-> LowerChar(str[i])]

\* a.includes(b): b occurs in a as a substring.
includes(a, b) ==
    \E i \in 0..(Len(a) - Len(b)) : SubSeq(a, i + 1, i + Len(b)) = b

\* Math.round of the fraction num / den (den > 0): halves round upward.
MathRound(num, den) == (2 * num + den) \div (2 * den)

\* allOfferings?.flatMap(o => o.skills || []) || []
RECURSIVE FlatSkills(_)
FlatSkills(offerings) ==
    IF offerings = <<>> THEN <<>>
    ELSE (IF Has(Head(offerings), "skills") THEN Head(offerings).skills ELSE <<>>)
            \o FlatSkills(Tail(offerings))

allOurSkills(body) ==
    IF Has(body, "allOfferings") THEN FlatSkills(body.allOfferings) ELSE <<>>

\* [...new Set(list)]: the first occurrence of each element, in order.
RECURSIVE Unique(_)
Unique(list) ==
    IF list = <<>> THEN <<>>
    ELSE LET front == Unique(SubSeq(list, 1, Len(list) - 1))
             x == list[Len(list)]
         IN  IF \E i \in DOMAIN front : front[i] = x THEN front ELSE Append(front, x)

uniqueOurSkills(body) ==
    LET all == allOurSkills(body)
    IN  Unique([i \in DOMAIN all |-> toLowerCase(all[i])])

\* project.skills || []
SkillsOf(project) == IF Has(project, "skills") THEN project.skills ELSE <<>>

hasSkill(ours, skill) ==
    \E i \in DOMAIN ours : includes(ours[i], skill) \/ includes(skill, ours[i])

crossCategoryMatched(body) ==
    LET ours == uniqueOurSkills(body)
        Matched(skill) == hasSkill(ours, toLowerCase(skill))
    IN  SelectSeq(SkillsOf(body.project), Matched)

crossCategoryMissing(body) ==
    LET ours == uniqueOurSkills(body)
        Missing(skill) == ~hasSkill(ours, toLowerCase(skill))
    IN  SelectSeq(SkillsOf(body.project), Missing)

\* Skill points that round halves downward.
skillPoints_RoundDown(matched, required) ==
    (25 * matched) \div (IF required = 0 THEN 1 ELSE required)

\* Math.round(matched / (required || 1) * 25)
skillPoints(matched, required) ==
    MathRound(25 * matched, IF required = 0 THEN 1 ELSE required)

\* project.client?.<field>, a missing client or field reading as 0 or false.
ClientOf(project) == IF Has(project, "client") THEN project.client ELSE undefined
paymentVerified(project) ==
    Has(ClientOf(project), "paymentVerified") /\ ClientOf(project).paymentVerified
highSpender(project) ==
    Has(ClientOf(project), "totalSpent") /\ ClientOf(project).totalSpent > 10000
goodRating(project) ==
    Has(ClientOf(project), "feedbackRate") /\ ClientOf(project).feedbackRate >= 45

budgetMax(project) == IF Has(project, "budgetMax") THEN project.budgetMax ELSE 0
isHourly(project) == Has(project, "isHourly") /\ project.isHourly

\* if (offering && ...): the request names an offering.
Offered(body) == Has(body, "offering")

\* avgRate * 0.8 <= budgetMax, with avgRate = (rateMin + rateMax) / 2.
hourlyAligned(body) ==
    10 * budgetMax(body.project) >= 4 * (body.offering.rateMin + body.offering.rateMax)

\* avgRate * 15 <= budgetMax.
fixedAligned(body) ==
    2 * budgetMax(body.project) >= 15 * (body.offering.rateMin + body.offering.rateMax)

\* A budget test whose fixed-price branch is not an else branch.
budgetAligned_EitherThreshold(body) ==
    /\ Offered(body)
    /\ budgetMax(body.project) > 0
    /\ hourlyAligned(body) \/ fixedAligned(body)

\* The budget alignment block: which of its two branches, if any, is taken.
budgetAligned(body) ==
    /\ Offered(body)
    /\ budgetMax(body.project) > 0
    /\ \/ isHourly(body.project) /\ hourlyAligned(body)
       \/ ~isHourly(body.project) /\ fixedAligned(body)

budgetLabel(body) ==
    IF isHourly(body.project) THEN "Budget aligns with our rates"
    ELSE "Fixed budget adequate"

Points(applies, pts) == IF applies THEN pts ELSE 0

\* A clamp without its ceiling.
Clamp_NoCeiling(c) == IF c < 20 THEN 20 ELSE c

\* Math.min(Math.max(Math.round(confidence), 20), 95)
Clamp(c) == IF c < 20 THEN 20 ELSE IF c > 95 THEN 95 ELSE c

\* let confidence = 50; confidence += ... for every signal; then the clamp.
confidence(body) ==
    LET project == body.project
    IN  Clamp(50
              + skillPoints(Len(crossCategoryMatched(body)), Len(SkillsOf(project)))
              + Points(paymentVerified(project), 5)
              + Points(highSpender(project), 5)
              + Points(goodRating(project), 5)
              + Points(budgetAligned(body), 10))

Line(applies, label, pts) ==
    IF applies THEN <<[label |-> label, points |-> pts]>> ELSE <<>>

\* A breakdown that records the rating before the spend.
confidenceBreakdown_RatingFirst(body) ==
    LET project == body.project
        matched == Len(crossCategoryMatched(body))
        required == Len(SkillsOf(project))
    IN  <<[label |-> "Skills match", points |-> skillPoints(matched, required)]>>
        \o Line(paymentVerified(project), "Payment verified", 5)
        \o Line(goodRating(project), "Good rating", 5)
        \o Line(highSpender(project), "High spender", 5)
        \o Line(budgetAligned(body), budgetLabel(body), 10)

\* confidenceBreakdown: the lines pushed, in the order they are pushed.  The
\* skills line is pushed whatever its points are.
confidenceBreakdown(body) ==
    LET project == body.project
        matched == Len(crossCategoryMatched(body))
        required == Len(SkillsOf(project))
    IN  <<[label |-> "Skills match", points |-> skillPoints(matched, required)]>>
        \o Line(paymentVerified(project), "Payment verified", 5)
        \o Line(highSpender(project), "High spender", 5)
        \o Line(goodRating(project), "Good rating", 5)
        \o Line(budgetAligned(body), budgetLabel(body), 10)

\* Estimates that do not depend on the backend.
\* offering ? Math.round((offering.rateMin + offering.rateMax) / 2) : 100
avgRate(body) ==
    IF Offered(body) THEN MathRound(body.offering.rateMin + body.offering.rateMax, 2)
    ELSE 100

\* project.estimatedHours || 20
estimatedHours(body) ==
    IF Has(body.project, "estimatedHours") /\ body.project.estimatedHours # 0
        THEN body.project.estimatedHours
    ELSE 20

\* estimatedHours * (offering?.rateMin || 75)
estimatedCostMin(body) ==
    estimatedHours(body)
        * (IF Offered(body) /\ Has(body.offering, "rateMin") /\ body.offering.rateMin # 0
               THEN body.offering.rateMin ELSE 75)

\* estimatedHours * (offering?.rateMax || 120)
estimatedCostMax(body) ==
    estimatedHours(body)
        * (IF Offered(body) /\ Has(body.offering, "rateMax") /\ body.offering.rateMax # 0
               THEN body.offering.rateMax ELSE 120)

\* Everything the handler has computed when it calls the backend.
Computed(body) ==
    [projectSkills |-> Len(SkillsOf(body.project)),
     skillsMatched |-> crossCategoryMatched(body),
     skillsMissing |-> crossCategoryMissing(body),
     confidence |-> confidence(body),
     confidenceBreakdown |-> confidenceBreakdown(body),
     avgRate |-> avgRate(body),
     estimatedHours |-> estimatedHours(body),
     estimatedCostMin |-> estimatedCostMin(body),
     estimatedCostMax |-> estimatedCostMax(body)]

----------------------------------------------------------------------------
(* POST /api/generate-proposal: the reply of the generative backend.       *)
(* The text of a reply is a tuple of tokens: white space, the three        *)
(* backquotes of a code fence, the word json, a run of prose, or the text  *)
(* of one JSON value.  A JSON value is a record holding its type and, for  *)
(* an object, its fields.                                                  *)

Ws == [t |-> "ws"]
Fence == [t |-> "fence"]
JsonWord == [t |-> "json"]
Prose == [t |-> "prose"]
ValueText(v) == [t |-> "value", v |-> v]

IsObject(v) == v.type = "object"

\* String.prototype.trim
RECURSIVE trimStart(_)
trimStart(text) ==
    IF text # <<>> /\ Head(text) = Ws THEN trimStart(Tail(text)) ELSE text
RECURSIVE trimEnd(_)
trimEnd(text) ==
    IF text # <<>> /\ text[Len(text)] = Ws
        THEN trimEnd(SubSeq(text, 1, Len(text) - 1))
    ELSE text
trim(text) == trimEnd(trimStart(text))

startsWith(text, prefix) ==
    Len(text) >= Len(prefix) /\ SubSeq(text, 1, Len(prefix)) = prefix
endsWith(text, suffix) ==
    Len(text) >= Len(suffix)
        /\ SubSeq(text, Len(text) - Len(suffix) + 1, Len(text)) = suffix

\* cleanText: trim, slice(7) after an opening fence with the word json,
\* slice(3) after an opening fence, slice(0, -3) before a closing fence, and
\* the trim inside JSON.parse(cleanText.trim()).
cleanText(text) ==
    LET trimmed == trim(text)
        opened == IF startsWith(trimmed, <<Fence, JsonWord>>)
                      THEN SubSeq(trimmed, 3, Len(trimmed)) ELSE trimmed
        bare == IF startsWith(opened, <<Fence>>) THEN Tail(opened) ELSE opened
        closed == IF endsWith(bare, <<Fence>>)
                      THEN SubSeq(bare, 1, Len(bare) - 1) ELSE bare
    IN  trim(closed)

\* JSON.parse(str) returns a value when str is the text of one JSON value
\* and throws otherwise.
Parses(str) == Len(str) = 1 /\ str[1].t = "value"
JSONparse(str) == str[1].v

\* text || "Unable to generate proposal. Please try again."
UnableToGenerate == <<[t |-> "Unable to generate proposal. Please try again."]>>

\* A complexity tier that already counts 5 skills as High.
complexity_AtThreshold(required) ==
    IF required >= 5 THEN "High" ELSE IF required > 2 THEN "Medium" ELSE "Low"

\* projectSkills.length > 5 ? 'High' : projectSkills.length > 2 ? 'Medium' : 'Low'
complexity(required) ==
    IF required > 5 THEN "High" ELSE IF required > 2 THEN "Medium" ELSE "Low"

\* confidence >= 75 ? 'BID' : confidence >= 60 ? 'CONSIDER' : 'REVIEW'
recommendation(conf) ==
    IF conf >= 75 THEN "BID" ELSE IF conf >= 60 THEN "CONSIDER" ELSE "REVIEW"

\* Math.ceil(estimatedHours / 40)
weeks(hours) == (hours + 39) \div 40

\* The analysis of the fallback reply, built from the values computed
\* before the call.  The request of the model carries no description.
FallbackAnalysis(calc) ==
    [projectSummary |-> "Project analysis pending",
     estimatedHours |-> calc.estimatedHours,
     complexity |-> complexity(calc.projectSkills),
     recommendedRate |-> calc.avgRate,
     totalEstimateMin |-> calc.estimatedCostMin,
     totalEstimateMax |-> calc.estimatedCostMax,
     confidenceScore |-> calc.confidence,
     confidenceBreakdown |-> calc.confidenceBreakdown,
     skillsMatched |-> calc.skillsMatched,
     skillsMissing |-> calc.skillsMissing,
     recommendation |-> recommendation(calc.confidence),
     recommendationReason |-> [basedOn |-> calc.confidence],
     keyDeliverables |-> <<"Project deliverables to be discussed">>,
     risks |-> <<"Scope clarification needed">>,
     timeline |-> [weeks |-> weeks(calc.estimatedHours)],
     questionsForClient |-> <<"Can you clarify the project scope?">>]

\* catch (parseError): proposalData = { proposal: text || ..., analysis: ... }
Fallback(calc, text) ==
    [type |-> "object",
     fields |-> [proposal |-> IF text = <<>> THEN UnableToGenerate ELSE text,
                 analysis |-> FallbackAnalysis(calc)]]

\* The analysis sent with an error.
PartialAnalysis(calc) ==
    [projectSummary |-> "Error analyzing project",
     estimatedHours |-> calc.estimatedHours,
     complexity |-> "Unknown",
     recommendedRate |-> calc.avgRate,
     totalEstimateMin |-> calc.estimatedCostMin,
     totalEstimateMax |-> calc.estimatedCostMax,
     confidenceScore |-> calc.confidence,
     confidenceBreakdown |-> calc.confidenceBreakdown,
     skillsMatched |-> calc.skillsMatched,
     skillsMissing |-> calc.skillsMissing,
     recommendation |-> "REVIEW",
     recommendationReason |-> "Error occurred during analysis",
     keyDeliverables |-> <<>>,
     risks |-> <<"Analysis error - manual review required">>,
     timeline |-> "TBD",
     questionsForClient |-> <<>>]

\* res.status(status).json(json)
Respond(status, json) == [status |-> status, json |-> json]

\* A catch block that answers with the fallback reply and no error status.
Caught_AsFallback(calc, message) ==
    [status |-> 200,
     json |-> [success |-> TRUE,
               warning |-> message,
               proposal |-> UnableToGenerate,
               analysis |-> FallbackAnalysis(calc)]]

\* catch (error): res.status(500).json({ error: error.message, analysis: ... })
Caught(calc, message) ==
    [status |-> 500,
     json |-> [error |-> message, analysis |-> PartialAnalysis(calc)]]

\* { ...a, ...b }: the fields of b after those of a.
Spread(a, b) ==
    [k \in DOMAIN a \cup DOMAIN b |-> IF k \in DOMAIN b THEN b[k] ELSE a[k]]

\* if (proposalData.analysis && !proposalData.analysis.confidenceBreakdown)
\*     proposalData.analysis.confidenceBreakdown = confidenceBreakdown;
\* proposalData is an object here; a field a reply of the model holds is an
\* object or a non-empty array, which are truthy.
Injected(fields, calc) ==
    IF Has(fields, "analysis") /\ ~Has(fields.analysis, "confidenceBreakdown")
        THEN [fields EXCEPT !.analysis =
                Spread(@, [confidenceBreakdown |-> calc.confidenceBreakdown])]
    ELSE fields

\* The rest of the try block once proposalData is known: reading
\* proposalData.analysis throws on null; a number or an empty array has no
\* such property and spreads to nothing.
Answer(proposalData, calc) ==
    IF proposalData.type = "null" THEN Caught(calc, NullTypeError)
    ELSE IF IsObject(proposalData)
        THEN Respond(200, Spread([success |-> TRUE], Injected(proposalData.fields, calc)))
    ELSE Respond(200, [success |-> TRUE])

\* The handler from the reply of the backend to its response.
OnBackendReply(calc, reply) ==
    CASE reply.kind = "rejected" -> Caught(calc, FetchFailed)
      [] reply.kind = "status" -> Caught(calc, ApiError(reply.status))
      [] reply.kind = "notjson" -> Caught(calc, InvalidJson)
      [] reply.kind = "text" ->
            IF Parses(cleanText(reply.text))
                THEN Answer(JSONparse(cleanText(reply.text)), calc)
            ELSE Answer(Fallback(calc, reply.text), calc)

----------------------------------------------------------------------------
(* Cache operations as steps of the process *)

\* The handlers at rest: no request received, no actor run created.
HandlersIdle ==
    /\ ANTHROPIC_API_KEY \in {TRUE}
    /\ prop = NoRequest
    /\ req = <<>>
    /\ jobs = 0
    /\ batch = NoRequest

\* Time passes: nothing but the clock changes.
Tick ==
    /\ ticks < MaxTicks
    /\ \E d \in {1, TTL(version) - 1} :
        now' = now + d
    /\ ticks' = ticks + 1
    /\ last' = [op |-> "tick"]
    /\ UNCHANGED <<version, APIFY_API_TOKEN, listening, cache, run>>
    /\ UNCHANGED handlers

Get ==
    /\ \E key \in Keys :
        /\ cache' = getCachedStore(cache, key, now)
        /\ last' = [op |-> "get", key |-> key, item |-> cache[key], at |-> now,
                    ret |-> getCachedResult(cache, key, now),
                    prev |-> Strip(last)]
    /\ UNCHANGED <<version, APIFY_API_TOKEN, listening, now, ticks, run>>
    /\ UNCHANGED handlers

Set ==
    /\ \E key \in Keys, data \in Payloads :
        /\ cache' = setCache(cache, key, data, now, TTL(version))
        /\ last' = [op |-> "set", key |-> key, item |-> cache[key], at |-> now,
                    data |-> data]
    /\ UNCHANGED <<version, APIFY_API_TOKEN, listening, now, ticks, run>>
    /\ UNCHANGED handlers

\* POST /api/cache/clear, which only server.js has.
Clear ==
    /\ version = "1.0.0"
    /\ cache' = cacheClear(cache)
    /\ last' = [op |-> "clear"]
    /\ UNCHANGED <<version, APIFY_API_TOKEN, listening, now, ticks, run>>
    /\ UNCHANGED handlers

InitCache ==
    /\ version \in Versions
    /\ APIFY_API_TOKEN \in BOOLEAN
    /\ listening = TRUE
    /\ now = 0
    /\ ticks = 0
    /\ cache = EmptyCache
    /\ last = NoCall
    /\ run = IdleRun
    /\ HandlersIdle
    /\ HandlersIdle

NextCache == Tick \/ Get \/ Set \/ Clear

SpecCache == InitCache /\ [][NextCache]_vars

----------------------------------------------------------------------------
(* The runner as steps of the process *)

\* app.listen(PORT, ...): the process starts whether or not the token is set.
Listen ==
    /\ ~listening
    /\ listening' = TRUE
    /\ UNCHANGED <<version, APIFY_API_TOKEN, now, ticks, cache, last, run>>
    /\ UNCHANGED handlers

\* A handler calls runApifyActor(input); the previous invocation has ended.
Call ==
    /\ listening
    /\ ~InFlight(run)
    /\ run' = RunCall(APIFY_API_TOKEN)
    /\ UNCHANGED <<version, APIFY_API_TOKEN, listening, now, ticks, cache, last>>
    /\ UNCHANGED handlers

SubmitReply ==
    /\ run.pc = "submit"
    /\ \E reply \in SubmitReplies :
        run' = [OnSubmitReply(run, reply) EXCEPT !.reply = reply]
    /\ UNCHANGED <<version, APIFY_API_TOKEN, listening, now, ticks, cache, last>>
    /\ UNCHANGED handlers

Timer ==
    /\ run.pc = "sleep"
    /\ run' = OnTimer(run)
    /\ UNCHANGED <<version, APIFY_API_TOKEN, listening, now, ticks, cache, last>>
    /\ UNCHANGED handlers

StatusReply ==
    /\ run.pc = "status"
    /\ \E reply \in StatusReplies :
        run' = [OnStatusReply(run, reply) EXCEPT !.reply = reply]
    /\ UNCHANGED <<version, APIFY_API_TOKEN, listening, now, ticks, cache, last>>
    /\ UNCHANGED handlers

FetchReply ==
    /\ run.pc = "fetch"
    /\ \E reply \in FetchReplies :
        run' = [OnFetchReply(run, reply) EXCEPT !.reply = reply]
    /\ UNCHANGED <<version, APIFY_API_TOKEN, listening, now, ticks, cache, last>>
    /\ UNCHANGED handlers

InitRunner ==
    /\ version = "2.1.0"
    /\ APIFY_API_TOKEN \in BOOLEAN
    /\ listening = FALSE
    /\ now = 0
    /\ ticks = 0
    /\ cache = EmptyCache
    /\ last = NoCall
    /\ run = IdleRun
    /\ HandlersIdle
    /\ HandlersIdle

NextRunner == Listen \/ Call \/ SubmitReply \/ Timer \/ StatusReply \/ FetchReply

SpecRunner == InitRunner /\ [][NextRunner]_vars

\* Every outbound call and every timer eventually returns; requests need not come.
FairSpecRunner ==
    /\ SpecRunner
    /\ WF_vars(SubmitReply)
    /\ WF_vars(Timer)
    /\ WF_vars(StatusReply)
    /\ WF_vars(FetchReply)

----------------------------------------------------------------------------
(* POST /api/generate-proposal as steps of the process *)

\* Skill names of postings and of offerings.
MySQL == <<"M", "y", "S", "Q", "L">>
Go == <<"G", "o">>
SQL == <<"S", "Q", "L">>
sql == <<"s", "q", "l">>
Django == <<"D", "j", "a", "n", "g", "o">>

SkillLists(pool, n) == UNION {[1..k -> pool] : k \in 0..n}

WebOffering == [name |-> "Web", skills |-> <<sql, Django>>, rateMin |-> 75, rateMax |-> 120]
DataOffering == [name |-> "Data", skills |-> <<SQL>>, rateMin |-> 75, rateMax |-> 120]
FreeOffering == [name |-> "Free", skills |-> <<SQL>>, rateMin |-> 0, rateMax |-> 0]
BareOffering == [name |-> "Bare"]

\* Clients on both sides of each threshold, and one without the two amounts.
Clients ==
    [paymentVerified : BOOLEAN, totalSpent : {10000, 20000}, feedbackRate : {45}]
        \cup [paymentVerified : {TRUE}, totalSpent : {20000}, feedbackRate : {44, 48}]
        \cup {[paymentVerified |-> TRUE]}

\* The postings the score is checked on.
ScoreProjects ==
    LET Rest == [budgetMax : {0, 77, 78, 1462, 1463}, isHourly : BOOLEAN]
        With(rec, field, value) ==
            [f \in DOMAIN rec \cup {field} |-> IF f = field THEN value ELSE rec[f]]
        Skilled == Rest \cup {With(r, "skills", l) :
                                r \in Rest, l \in SkillLists({MySQL, Go}, MaxSkills)}
    IN  Skilled \cup {With(r, "client", c) : r \in Skilled, c \in Clients}

\* The request bodies the score is checked on.
ScoreBodies ==
    LET With(rec, field, value) ==
            [f \in DOMAIN rec \cup {field} |-> IF f = field THEN value ELSE rec[f]]
        Plain == [project : ScoreProjects]
        Offering == Plain \cup {With(b, "offering", o) :
                                    b \in Plain, o \in {WebOffering, FreeOffering}}
    IN  Offering \cup {With(b, "allOfferings", a) :
                        b \in Offering,
                        a \in {<<>>, <<DataOffering>>, <<BareOffering, DataOffering>>,
                               <<WebOffering, DataOffering>>}}

\* The handler up to its await of the backend: the two early returns, the
\* score, the estimates, and the call of the backend.
Generate ==
    /\ prop.pc = "received"
    /\ prop' =
        IF ~ANTHROPIC_API_KEY
            THEN [pc |-> "responded", body |-> prop.body,
                  response |-> Respond(500,
                      [error |-> "ANTHROPIC_API_KEY not configured on server"])]
        ELSE IF ~Has(prop.body, "project")
            THEN [pc |-> "responded", body |-> prop.body,
                  response |-> Respond(400, [error |-> "Project data required"])]
        ELSE [pc |-> "awaiting", body |-> prop.body, calc |-> Computed(prop.body)]
    /\ UNCHANGED <<version, APIFY_API_TOKEN, listening, now, ticks, cache, last, run>>
    /\ UNCHANGED <<ANTHROPIC_API_KEY, req, jobs, batch>>

InitScore ==
    /\ version = "2.1.0"
    /\ APIFY_API_TOKEN = TRUE
    /\ ANTHROPIC_API_KEY = TRUE
    /\ listening = TRUE
    /\ now = 0
    /\ ticks = 0
    /\ cache = EmptyCache
    /\ last = NoCall
    /\ run = IdleRun
    /\ prop \in [pc : {"received"}, body : ScoreBodies]
    /\ req = <<>>
    /\ jobs = 0
    /\ batch = NoRequest

NextScore == Generate

SpecScore == InitScore /\ [][NextScore]_vars

\* The postings the whole handler is checked on: the numbers of required
\* skills lie on both sides of the complexity thresholds.
ProposalProjects ==
    LET Rest == [budgetMax : {0, 78}, isHourly : {TRUE}]
        Skilled == Rest \cup {Spread(r, [skills |-> [i \in 1..n |-> MySQL]]) :
                                r \in Rest, n \in {0, 3, 5, 6}}
        Timed == Skilled \cup {Spread(r, [estimatedHours |-> h]) :
                                r \in Skilled, h \in {0, 50}}
    IN  Timed \cup {Spread(r, [client |-> c]) :
                        r \in Timed,
                        c \in {[paymentVerified |-> TRUE, totalSpent |-> 20000,
                                feedbackRate |-> 48],
                               [paymentVerified |-> TRUE, totalSpent |-> 10000,
                                feedbackRate |-> 44]}}

\* The request bodies the whole handler is checked on; one has no project.
ProposalBodies ==
    LET Plain == [project : ProposalProjects]
        Offering == Plain \cup {Spread(b, [offering |-> o]) :
                                    b \in Plain, o \in {WebOffering, FreeOffering}}
    IN  Offering
            \cup {Spread(b, [allOfferings |-> <<DataOffering>>]) : b \in Offering}
            \cup {[template |-> "default"]}

\* What the backend may put in the text of its reply: an object with a
\* proposal and an analysis with or without a breakdown of its own, with an
\* analysis that holds one field, or with no analysis; a number, an empty
\* array, null.
JsonValues ==
    LET BackendAnalysis ==
            [complexity |-> "High", recommendation |-> "BID", estimatedHours |-> 1,
             recommendedRate |-> 1, totalEstimateMin |-> 1, totalEstimateMax |-> 1,
             confidenceScore |-> 1]
        BackendLine == [label |-> "Backend line", points |-> 0]
        Object(analyses) ==
            [type : {"object"}, fields : [proposal : {<<Prose>>}, analysis : analyses]]
    IN  Object({Spread(BackendAnalysis, [confidenceBreakdown |-> <<BackendLine>>]),
                BackendAnalysis,
                [complexity |-> "Low"]})
            \cup {[type |-> "object", fields |-> [proposal |-> <<Prose>>]],
                  [type |-> "number"], [type |-> "array"], [type |-> "null"]}

\* The texts a reply may carry: a value bare, padded, fenced, fenced without
\* the word json, fenced twice, without its closing fence, or after prose;
\* prose alone, fenced prose, and no text at all.
Texts ==
    UNION {{<<ValueText(v)>>,
            <<Ws, ValueText(v), Ws>>,
            <<Ws, Fence, JsonWord, Ws, ValueText(v), Ws, Fence, Ws>>,
            <<Fence, Ws, ValueText(v), Ws, Fence>>,
            <<Fence, JsonWord, Fence, ValueText(v), Fence>>,
            <<Fence, JsonWord, Ws, ValueText(v)>>,
            <<Prose, Fence, JsonWord, Ws, ValueText(v), Ws, Fence>>} : v \in JsonValues}
        \cup {<<Prose>>, <<Fence, JsonWord, Ws, Prose, Ws, Fence>>, <<JsonWord>>, <<>>, <<Ws>>}

\* How the call of the backend may end: fetch rejects, a status that is not
\* ok, an ok reply whose body is not JSON, an ok reply with a text (empty
\* when the content holds no text item).
BackendReplies ==
    {[kind |-> "rejected"], [kind |-> "notjson"]}
        \cup [kind : {"status"}, status : {401, 529}]
        \cup [kind : {"text"}, text : Texts]

\* The handler from the reply of the backend to the end of the request.
BackendReply ==
    /\ prop.pc = "awaiting"
    /\ \E reply \in BackendReplies :
        prop' = [pc |-> "responded", body |-> prop.body, calc |-> prop.calc,
                 reply |-> reply, response |-> OnBackendReply(prop.calc, reply)]
    /\ UNCHANGED <<version, APIFY_API_TOKEN, listening, now, ticks, cache, last, run>>
    /\ UNCHANGED <<ANTHROPIC_API_KEY, req, jobs, batch>>

InitProposal ==
    /\ version = "2.1.0"
    /\ APIFY_API_TOKEN = TRUE
    /\ ANTHROPIC_API_KEY \in BOOLEAN
    /\ listening = TRUE
    /\ now = 0
    /\ ticks = 0
    /\ cache = EmptyCache
    /\ last = NoCall
    /\ run = IdleRun
    /\ prop \in [pc : {"received"}, body : ProposalBodies]
    /\ req = <<>>
    /\ jobs = 0
    /\ batch = NoRequest

NextProposal == Generate \/ BackendReply

SpecProposal == InitProposal /\ [][NextProposal]_vars

----------------------------------------------------------------------------
(* GET /api/upwork/search as steps of the process.  Each request in        *)
(* progress has its own invocation of the runner; the run id is the one    *)
(* the upstream gave to the submission, a fresh one for every run.         *)

React == <<"R", "e", "a", "c", "t">>
react == <<"r", "e", "a", "c", "t">>
\* req.query.keyword: two spellings of one keyword, or none.
Keywords == {React, react, <<>>}

\* `search:${keyword.toLowerCase()}`
searchKey(keyword) ==
    CASE toLowerCase(keyword) = react -> "search:react"

\* A lookup that takes an entry for expired in the last millisecond of its
\* life.
Hit_BeforeExpiry(c, key, t) == c[key] # undefined /\ t < c[key].expiry

\* if (cached): getCached found an entry that has not expired.
Hit(c, key, t) == c[key] # undefined /\ ~Expired(c[key], t)

\* responseData of a search; count, a function of jobs, is left out.
searchData(keyword, result, t) ==
    [success |-> TRUE, keyword |-> keyword, jobs |-> result, timestamp |-> t]

\* What the upstream answers to the status query of a search: the run is
\* reported as still running at most MaxPolls times.
SearchStatusReplies(r) ==
    {reply \in StatusReplies :
        /\ reply.status \in {"RUNNING", "SUCCEEDED", "FAILED"}
        /\ reply.status = "RUNNING" => r.attempts < MaxPolls}

IdleRequest ==
    [pc |-> "idle", keyword |-> <<>>, hit |-> FALSE, run |-> IdleRun, runId |-> 0,
     order |-> 0, at |-> 0, response |-> Respond(0, undefined)]

Responded(request, order, t, response) ==
    [request EXCEPT !.pc = "responded", !.order = order, !.at = t,
                    !.response = response]

\* The number of requests answered so far.
Answered == Cardinality({i \in DOMAIN req : req[i].pc = "responded"})

\* The handler up to its await of the runner: the keyword check, the cache
\* lookup, and the call of runApifyActor, which throws without a token.
SearchRequest(i) ==
    /\ req[i].pc = "idle"
    /\ \E keyword \in Keywords :
        LET asked == [req[i] EXCEPT !.keyword = keyword]
            r == RunCall(APIFY_API_TOKEN)
        IN  IF keyword = <<>>
                THEN /\ req' = [req EXCEPT ![i] =
                            Responded(asked, Answered + 1, now,
                                      Respond(400, [error |-> "Keyword required"]))]
                     /\ cache' = cache
            ELSE /\ cache' = getCachedStore(cache, searchKey(keyword), now)
                 /\ req' = [req EXCEPT ![i] =
                        IF Hit(cache, searchKey(keyword), now)
                            THEN Responded([asked EXCEPT !.hit = TRUE], Answered + 1, now,
                                    Respond(200,
                                        Spread(getCachedResult(cache, searchKey(keyword), now),
                                               [cached |-> TRUE])))
                        ELSE IF Ended(r)
                            THEN Responded([asked EXCEPT !.run = r], Answered + 1, now,
                                    Respond(500, [error |-> r.error]))
                        ELSE [asked EXCEPT !.pc = "running", !.run = r]]
    /\ UNCHANGED <<version, APIFY_API_TOKEN, listening, now, ticks, last, run>>
    /\ UNCHANGED <<ANTHROPIC_API_KEY, prop, jobs, batch>>

\* The handler after an await of the runner: it goes on waiting, or the run
\* has ended and the handler stores and sends the result, or sends the error.
SearchResume(i, r) ==
    IF r.pc = "returned"
        THEN LET data == searchData(req[i].keyword, r.result, now)
             IN  /\ cache' = setCache(cache, searchKey(req[i].keyword), data, now,
                                      TTL(version))
                 /\ req' = [req EXCEPT ![i] =
                        Responded([@ EXCEPT !.run = r], Answered + 1, now,
                                  Respond(200, data))]
    ELSE IF r.pc = "thrown"
        THEN /\ cache' = cache
             /\ req' = [req EXCEPT ![i] =
                    Responded([@ EXCEPT !.run = r], Answered + 1, now,
                              Respond(500, [error |-> r.error]))]
    ELSE /\ cache' = cache
         /\ req' = [req EXCEPT ![i].run = r]

SearchSubmitReply(i) ==
    /\ req[i].pc = "running"
    /\ req[i].run.pc = "submit"
    /\ \E reply \in SubmitReplies :
        LET r == OnSubmitReply(req[i].run, reply)
        IN  IF reply.ok
                THEN /\ jobs' = jobs + 1
                     /\ cache' = cache
                     /\ req' = [req EXCEPT ![i].run = r, ![i].runId = jobs + 1]
            ELSE jobs' = jobs /\ SearchResume(i, r)
    /\ UNCHANGED <<version, APIFY_API_TOKEN, listening, now, ticks, last, run>>
    /\ UNCHANGED <<ANTHROPIC_API_KEY, prop, batch>>

SearchTimer(i) ==
    /\ req[i].pc = "running"
    /\ req[i].run.pc = "sleep"
    /\ SearchResume(i, OnTimer(req[i].run))
    /\ UNCHANGED <<version, APIFY_API_TOKEN, listening, now, ticks, last, run>>
    /\ UNCHANGED <<ANTHROPIC_API_KEY, prop, jobs, batch>>

SearchStatusReply(i) ==
    /\ req[i].pc = "running"
    /\ req[i].run.pc = "status"
    /\ \E reply \in SearchStatusReplies(req[i].run) :
        SearchResume(i, OnStatusReply(req[i].run, reply))
    /\ UNCHANGED <<version, APIFY_API_TOKEN, listening, now, ticks, last, run>>
    /\ UNCHANGED <<ANTHROPIC_API_KEY, prop, jobs, batch>>

SearchFetchReply(i) ==
    /\ req[i].pc = "running"
    /\ req[i].run.pc = "fetch"
    /\ \E reply \in FetchReplies :
        SearchResume(i, OnFetchReply(req[i].run, reply))
    /\ UNCHANGED <<version, APIFY_API_TOKEN, listening, now, ticks, last, run>>
    /\ UNCHANGED <<ANTHROPIC_API_KEY, prop, jobs, batch>>

InitSearch ==
    /\ version = "2.1.0"
    /\ APIFY_API_TOKEN \in BOOLEAN
    /\ ANTHROPIC_API_KEY = TRUE
    /\ listening = TRUE
    /\ now = 0
    /\ ticks = 0
    /\ cache = EmptyCache
    /\ last = NoCall
    /\ run = IdleRun
    /\ prop = NoRequest
    /\ req = <<IdleRequest, IdleRequest>>
    /\ jobs = 0
    /\ batch = NoRequest

NextSearch ==
    \/ Tick
    \/ \E i \in DOMAIN req : SearchRequest(i)
    \/ \E i \in DOMAIN req : SearchSubmitReply(i)
    \/ \E i \in DOMAIN req : SearchTimer(i)
    \/ \E i \in DOMAIN req : SearchStatusReply(i)
    \/ \E i \in DOMAIN req : SearchFetchReply(i)

SpecSearch == InitSearch /\ [][NextSearch]_vars

----------------------------------------------------------------------------
(* POST /api/upwork/batch as steps of the process.  In version 1.0.0 every *)
(* keyword has its own fetch of the RSS feed; in version 2.1.0 the whole   *)
(* batch is one run of the runner.  A cache key is the string the handler *)
(* builds, as a tuple of characters.                                       *)

go == <<"g", "o">>

\* req.body.keywords: lists of at most MaxBatch keywords.
KeywordLists == UNION {[1..n -> {React, react, Go}] : n \in 0..MaxBatch}
BatchBodies == [keywords : KeywordLists] \cup {[limit |-> 100]}

\* The UTF-16 code unit of a character, for the characters of the keywords.
CharCode(ch) ==
    CASE ch = "," -> 44 [] ch = "G" -> 71 [] ch = "R" -> 82 [] ch = "a" -> 97
      [] ch = "b" -> 98 [] ch = "c" -> 99
      [] ch = "e" -> 101 [] ch = "g" -> 103 [] ch = "o" -> 111 [] ch = "r" -> 114
      [] ch = "t" -> 116

\* a sorts before b in the order of Array.prototype.sort without a comparator.
RECURSIVE Before(_, _)
Before(a, b) ==
    IF a = <<>> THEN b # <<>>
    ELSE IF b = <<>> THEN FALSE
    ELSE IF Head(a) # Head(b) THEN CharCode(Head(a)) < CharCode(Head(b))
    ELSE Before(Tail(a), Tail(b))

\* keywords.sort()
RECURSIVE sort(_)
sort(list) ==
    IF list = <<>> THEN <<>>
    ELSE LET rest == sort(Tail(list))
             x == Head(list)
             Smaller(y) == Before(y, x)
             NotSmaller(y) == ~Before(y, x)
         IN  SelectSeq(rest, Smaller) \o <<x>> \o SelectSeq(rest, NotSmaller)

\* keywords.slice(0, 10)
slice(list, n) == SubSeq(list, 1, IF Len(list) < n THEN Len(list) ELSE n)

\* list.join(','): the strings of the list with a comma between neighbours.
RECURSIVE join(_)
join(list) ==
    IF list = <<>> THEN <<>>
    ELSE IF Len(list) = 1 THEN Head(list)
    ELSE Head(list) \o <<",">> \o join(Tail(list))

\* The template strings search:${keyword.toLowerCase()} and
\* batch:${keywords.sort().join(',')}, character by character.
feedKey(keyword) == <<"s", "e", "a", "r", "c", "h", ":">> \o toLowerCase(keyword)
batchKey(sorted) == <<"b", "a", "t", "c", "h", ":">> \o join(sorted)

\* What the fetch of one feed may end in: fetch rejects, or a reply whose
\* status is ok or not and whose body xml2js can parse or not.
FeedReplies ==
    {[kind |-> "rejected"]}
        \cup [kind : {"reply"}, ok : BOOLEAN, body : {"feedA", "garbage"}]

\* The entry of one keyword once its fetch has ended: response.ok is never
\* looked at, and what decides is whether the body parses.
feedEntry(keyword, reply) ==
    IF reply.kind = "rejected" THEN [keyword |-> keyword, error |-> FetchFailed]
    ELSE IF reply.body = "garbage"
        THEN [keyword |-> keyword, error |-> "Non-whitespace before first tag."]
    ELSE [keyword |-> keyword, data |-> reply.body]

\* responseData of a batch of version 2.1.0; count is left out.
batchData(sorted, result, t) ==
    [success |-> TRUE, keywords |-> sorted, jobs |-> result, timestamp |-> t]

\* The callback of keywords.slice(0, 10).map up to its first await.
feedItem(c, keyword, t) ==
    IF Hit(c, feedKey(keyword), t)
        THEN [pc |-> "done",
              entry |-> [keyword |-> keyword,
                         data |-> getCachedResult(c, feedKey(keyword), t).data,
                         cached |-> TRUE]]
    ELSE [pc |-> "fetching", entry |-> [keyword |-> keyword]]

\* res.json({ success: true, results, timestamp }) once every item is done.
Joined(request, t) ==
    IF \A i \in DOMAIN request.items : request.items[i].pc = "done"
        THEN [request EXCEPT !.pc = "responded",
                !.response = Respond(200,
                    [success |-> TRUE,
                     results |-> [i \in DOMAIN request.items |-> request.items[i].entry],
                     timestamp |-> t])]
    ELSE request

\* The handler of version 1.0.0 up to the awaits of its fetches.
BatchRequestRss ==
    /\ version = "1.0.0"
    /\ batch.pc = "received"
    /\ batch' =
        IF ~Has(batch.body, "keywords")
            THEN [pc |-> "responded", body |-> batch.body,
                  response |-> Respond(400, [error |-> "Keywords array is required"])]
        ELSE LET taken == slice(batch.body.keywords, BatchLimit)
             IN  Joined([pc |-> "fetching", body |-> batch.body,
                         items |-> [i \in DOMAIN taken |-> feedItem(cache, taken[i], now)],
                         response |-> Respond(0, undefined)], now)
    /\ UNCHANGED <<version, APIFY_API_TOKEN, listening, now, ticks, cache, last, run>>
    /\ UNCHANGED <<ANTHROPIC_API_KEY, prop, req, jobs>>

\* One fetch of version 1.0.0 has ended and its body has gone through the
\* parser: a parsed feed is stored, and the last item to end sends the reply.
BatchFeedReply(i) ==
    /\ batch.pc = "fetching"
    /\ i \in DOMAIN batch.items
    /\ batch.items[i].pc = "fetching"
    /\ \E reply \in FeedReplies :
        LET keyword == batch.items[i].entry.keyword
            entry == feedEntry(keyword, reply)
        IN  /\ cache' = IF Has(entry, "data")
                            THEN setCache(cache, feedKey(keyword), [data |-> entry.data],
                                          now, TTL(version))
                        ELSE cache
            /\ batch' = Joined([batch EXCEPT !.items[i] =
                            [pc |-> "done", entry |-> entry, reply |-> reply]], now)
    /\ UNCHANGED <<version, APIFY_API_TOKEN, listening, now, ticks, last, run>>
    /\ UNCHANGED <<ANTHROPIC_API_KEY, prop, req, jobs>>

\* The handler of version 2.1.0 up to its await of the runner.
BatchRequestRun ==
    /\ version = "2.1.0"
    /\ batch.pc = "received"
    /\ ~InFlight(run)
    /\ IF ~Has(batch.body, "keywords")
           THEN /\ batch' = [pc |-> "responded", body |-> batch.body,
                             response |-> Respond(400, [error |-> "Keywords array required"])]
                /\ UNCHANGED <<cache, run>>
       ELSE LET sorted == sort(batch.body.keywords)
                key == batchKey(sorted)
                r == RunCall(APIFY_API_TOKEN)
            IN  /\ cache' = getCachedStore(cache, key, now)
                /\ IF Hit(cache, key, now)
                       THEN /\ batch' = [pc |-> "responded", body |-> batch.body,
                                         keywords |-> sorted,
                                         response |-> Respond(200,
                                            Spread(getCachedResult(cache, key, now),
                                                   [cached |-> TRUE]))]
                            /\ run' = run
                   ELSE /\ batch' = [pc |-> "running", body |-> batch.body,
                                     keywords |-> sorted]
                        /\ run' = r
    /\ UNCHANGED <<version, APIFY_API_TOKEN, listening, now, ticks, last>>
    /\ UNCHANGED <<ANTHROPIC_API_KEY, prop, req, jobs>>

\* The handler of version 2.1.0 after its await: the result is stored and
\* sent, or the error of the runner is sent with status 500.
BatchResume ==
    /\ batch.pc = "running"
    /\ Ended(run)
    /\ IF run.pc = "returned"
           THEN LET data == batchData(batch.keywords, run.result, now)
                IN  /\ cache' = setCache(cache, batchKey(batch.keywords), data, now,
                                         TTL(version))
                    /\ batch' = [batch EXCEPT !.pc = "responded"]
                                    @@ [response |-> Respond(200, data)]
       ELSE /\ cache' = cache
            /\ batch' = [batch EXCEPT !.pc = "responded"]
                            @@ [response |-> Respond(500, [error |-> run.error])]
    /\ UNCHANGED <<version, APIFY_API_TOKEN, listening, now, ticks, last, run>>
    /\ UNCHANGED <<ANTHROPIC_API_KEY, prop, req, jobs>>

\* A cache that holds nothing, or one feed or one batch stored by an earlier
\* request.
BatchCaches(v) ==
    IF v = "1.0.0"
        THEN LET empty == [k \in {feedKey(react), feedKey(go)} |-> undefined]
             IN  {empty, setCache(empty, feedKey(react), [data |-> "feedB"], 0, TTL(v))}
    ELSE LET empty == [k \in {batchKey(sort(l)) : l \in KeywordLists} |-> undefined]
         IN  {empty, setCache(empty, batchKey(<<Go>>), batchData(<<Go>>, "jobsB", 0), 0, TTL(v))}

InitBatch ==
    /\ version \in Versions
    /\ APIFY_API_TOKEN \in BOOLEAN
    /\ ANTHROPIC_API_KEY = TRUE
    /\ listening = TRUE
    /\ now = 0
    /\ ticks = 0
    /\ cache \in BatchCaches(version)
    /\ last = NoCall
    /\ run = IdleRun
    /\ prop = NoRequest
    /\ req = <<>>
    /\ jobs = 0
    /\ batch \in [pc : {"received"}, body : BatchBodies]

NextBatch ==
    \/ BatchRequestRss
    \/ \E i \in 1..MaxBatch : BatchFeedReply(i)
    \/ BatchRequestRun
    \/ SubmitReply
    \/ Timer
    \/ StatusReply
    \/ FetchReply
    \/ BatchResume

SpecBatch == InitBatch /\ [][NextBatch]_vars

----------------------------------------------------------------------------
(* The three job routes of the Apify servers, GET /api/upwork/search, GET  *)
(* /api/upwork/category (version 2.0.0 only) and POST /api/upwork/batch,   *)
(* as steps of the process: one request req[1], handled against the cache  *)
(* an earlier request left behind.  The three handlers are the same code   *)
(* but for the parameter they check, the key they build and the field of   *)
(* the reply that repeats the parameter.                                   *)

Web == <<"w", "e", "b">>
KwA == <<"a">>
KwB == <<"b">>
KwAB == <<"a", ",", "b">>

\* req.query of a search or category request and req.body of a batch
\* request.  keywordArray stands for a keyword that the query parser of
\* Express made an array, as it does for ?keyword=React&keyword=react.
ServeParams(endpoint) ==
    CASE endpoint = "search" ->
            [keyword : {React, react}]
                \cup {[keywordArray |-> <<React, react>>], [limit |-> 30]}
      [] endpoint = "category" -> {[category |-> Web], [limit |-> 50]}
      [] endpoint = "batch" ->
            [keywords : UNION {[1..n -> {KwA, KwB, KwAB}] : n \in 0..2}]
                \cup {[limit |-> 100]}

\* The routes the server file registers.
Endpoints(v) == IF v = "2.0.0" THEN {"search", "category", "batch"} ELSE {"search", "batch"}

\* const cacheKey = ...: the three template strings.  The key of a search is
\* built by the template of feedKey.
cacheKey(endpoint, params) ==
    CASE endpoint = "search" -> feedKey(params.keyword)
      [] endpoint = "category" ->
            <<"c", "a", "t", "e", "g", "o", "r", "y", ":">> \o params.category
      [] endpoint = "batch" -> batchKey(sort(params.keywords))

\* const responseData = {...}; keywords.sort() has sorted the array of the
\* batch in place by then.
responseData(endpoint, params, result, t) ==
    CASE endpoint = "search" -> searchData(params.keyword, result, t)
      [] endpoint = "category" ->
            [success |-> TRUE, category |-> params.category, jobs |-> result,
             timestamp |-> t]
      [] endpoint = "batch" -> batchData(sort(params.keywords), result, t)

\* What becomes of a request whose async handler throws outside its try
\* block: Express 4 leaves the rejected promise alone and nothing is sent;
\* Express 5 passes it to the default error handler, which sends its own
\* page with status 500.
Uncaught == {Respond(0, undefined), Respond(500, [html |-> "TypeError"])}

\* The handler up to its await of the runner: the parameter check, the key,
\* the cache lookup, and the call of runApifyActor, which throws without a
\* token.
ServeRequest ==
    /\ req[1].pc = "received"
    /\ ~InFlight(run)
    /\ LET q == req[1]
           missing == [search |-> "Keyword required", category |-> "Category required",
                       batch |-> "Keywords array required"]
           param == [search |-> "keyword", category |-> "category",
                     batch |-> "keywords"]
       IN  IF q.endpoint = "search" /\ Has(q.params, "keywordArray")
               THEN /\ \E response \in Uncaught :
                        req' = <<[q EXCEPT !.pc = "uncaught", !.response = response]>>
                    /\ UNCHANGED <<cache, run>>
           ELSE IF ~Has(q.params, param[q.endpoint])
               THEN /\ req' = <<[q EXCEPT !.pc = "responded",
                                    !.response = Respond(400, [error |-> missing[q.endpoint]])]>>
                    /\ UNCHANGED <<cache, run>>
           ELSE LET key == cacheKey(q.endpoint, q.params)
                    looked == [q EXCEPT !.key = key, !.found = cache[key]]
                    r == RunCall(APIFY_API_TOKEN)
                IN  /\ cache' = getCachedStore(cache, key, now)
                    /\ IF Hit(cache, key, now)
                           THEN /\ req' = <<[looked EXCEPT !.pc = "responded",
                                        !.response = Respond(200,
                                            Spread(getCachedResult(cache, key, now),
                                                   [cached |-> TRUE]))]>>
                                /\ run' = run
                       ELSE IF Ended(r)
                           THEN /\ req' = <<[looked EXCEPT !.pc = "responded",
                                        !.response = Respond(500, [error |-> r.error])]>>
                                /\ run' = r
                       ELSE /\ req' = <<[looked EXCEPT !.pc = "running"]>>
                            /\ run' = r
    /\ UNCHANGED <<version, APIFY_API_TOKEN, listening, now, ticks, last>>
    /\ UNCHANGED <<ANTHROPIC_API_KEY, prop, jobs, batch>>

\* The handler after its await: the result is stored and sent, or the error
\* of the runner is sent with status 500.
ServeResume ==
    /\ req[1].pc = "running"
    /\ Ended(run)
    /\ LET q == req[1]
       IN  IF run.pc = "returned"
               THEN LET data == responseData(q.endpoint, q.params, run.result, now)
                    IN  /\ cache' = setCache(cache, q.key, data, now, TTL(version))
                        /\ req' = <<[q EXCEPT !.pc = "responded",
                                        !.response = Respond(200, data)]>>
           ELSE /\ cache' = cache
                /\ req' = <<[q EXCEPT !.pc = "responded",
                                !.response = Respond(500, [error |-> run.error])]>>
    /\ UNCHANGED <<version, APIFY_API_TOKEN, listening, now, ticks, last, run>>
    /\ UNCHANGED <<ANTHROPIC_API_KEY, prop, jobs, batch>>

\* A cache that holds nothing, or the reply that one earlier request stored
\* at time 0.
ServeCaches(v) ==
    LET keys == {cacheKey(e, p) : <<e, p>> \in
                    {<<e, p>> \in UNION {{e} \X ServeParams(e) : e \in Endpoints(v)} :
                        Has(p, "keyword") \/ Has(p, "category") \/ Has(p, "keywords")}}
        empty == [k \in keys |-> undefined]
        earlier == {<<"search", [keyword |-> React]>>,
                    <<"batch", [keywords |-> <<KwB, KwA>>]>>,
                    <<"batch", [keywords |-> <<KwAB>>]>>}
                    \cup IF v = "2.0.0" THEN {<<"category", [category |-> Web]>>} ELSE {}
    IN  {empty} \cup {setCache(empty, cacheKey(s[1], s[2]),
                               responseData(s[1], s[2], "jobsB", 0), 0, TTL(v)) :
                      s \in earlier}

\* The request arrives at once, or when the entry of time 0 is at the end of
\* its life, or one millisecond later.
InitServe ==
    /\ version \in {"2.0.0", "2.1.0"}
    /\ APIFY_API_TOKEN \in BOOLEAN
    /\ ANTHROPIC_API_KEY = TRUE
    /\ listening = TRUE
    /\ now \in {0, TTL(version), TTL(version) + 1}
    /\ ticks = 0
    /\ cache \in ServeCaches(version)
    /\ last = NoCall
    /\ run = IdleRun
    /\ prop = NoRequest
    /\ \E endpoint \in Endpoints(version) : \E params \in ServeParams(endpoint) :
        req = <<[pc |-> "received", endpoint |-> endpoint, params |-> params,
                 key |-> <<>>, found |-> undefined, response |-> Respond(0, undefined)]>>
    /\ jobs = 0
    /\ batch = NoRequest

NextServe ==
    \/ ServeRequest
    \/ SubmitReply
    \/ Timer
    \/ StatusReply
    \/ FetchReply
    \/ ServeResume

SpecServe == InitServe /\ [][NextServe]_vars

----------------------------------------------------------------------------
(* Properties of the runner *)

\* The outbound calls the current invocation has made: submit, status, fetch.
Calls == <<run.submitCalls, run.statusCalls, run.fetchCalls>>

\* C1: a run whose submission succeeds and whose every status query reports
\* a pending status throws the timeout after exactly 30 status calls, having
\* made one submit call and no fetch call; it does not give up earlier.
C1_TimeoutAfterThirtyStatusCalls ==
    /\ (run.pc = "thrown" /\ run.error = TimedOut) =>
            /\ Calls = <<1, 30, 0>>
            /\ run.status \in PendingStatuses
    /\ (run.status \in PendingStatuses /\ run.statusCalls = 30 /\ run.pc # "status") =>
            /\ run.pc = "thrown"
            /\ run.error = TimedOut
    /\ (run.status \in PendingStatuses /\ run.statusCalls < 30) =>
            run.pc \in {"sleep", "status"}

C1_Witness ==
    /\ run.pc = "thrown"
    /\ run.error = TimedOut
    /\ run.status = "RUNNING"
    /\ Calls = <<1, 30, 0>>

\* C2: when polls 1..k-1 report pending and poll k (1 <= k <= 30) reports
\* SUCCEEDED, the run has made one submit call, k status calls and one fetch
\* call, and returns the result set the fetch delivered.
C2_SuccessOnPollK ==
    /\ run.status = "SUCCEEDED" =>
            /\ run.pc \in {"fetch", "returned", "thrown"}
            /\ run.statusCalls \in 1..30
            /\ run.statusCalls = run.attempts + 1
            /\ Calls = <<1, run.statusCalls, 1>>
    /\ (run.status = "SUCCEEDED" /\ run.reply.to = "fetch" /\ run.reply.ok) =>
            /\ run.pc = "returned"
            /\ run.result = run.reply.body
            /\ run.result \in Payloads
    /\ run.pc = "returned" => run.status = "SUCCEEDED" /\ run.reply.to = "fetch"

C2_Witness ==
    /\ run.pc = "returned"
    /\ run.reply.to = "fetch" /\ run.reply.ok
    /\ run.result = "jobsB"
    /\ Calls = <<1, 30, 1>>

\* C3: when poll k (1 <= k <= 30) reports FAILED or ABORTED after k-1 pending
\* polls, the run throws the job failure at once: k status calls were made,
\* no status query follows and no fetch call is issued.
C3_JobFailureStopsPolling ==
    /\ run.status \in {"FAILED", "ABORTED"} =>
            /\ run.pc = "thrown"
            /\ run.error = (IF run.status = "FAILED" THEN JobFailed ELSE JobAborted)
            /\ run.statusCalls \in 1..30
            /\ run.statusCalls = run.attempts + 1
            /\ Calls = <<1, run.statusCalls, 0>>
    /\ run.error \in {JobFailed, JobAborted} => run.status \in {"FAILED", "ABORTED"}

C3_Witness ==
    /\ run.pc = "thrown"
    /\ run.status = "ABORTED"
    /\ run.error = JobAborted
    /\ Calls = <<1, 30, 0>>

\* The errors of the taxonomy: configuration, upstream, job failed, timeout.
Taxonomy == {ConfigurationError, UpstreamError, JobFailed, JobAborted, TimedOut}

\* A reply that is no status report and no JSON document.
Malformed(reply) ==
    \/ reply.to = "status" /\ reply.status = NoData
    \/ reply.to = "fetch" /\ reply.body = NotJson

\* C4: as long as every outbound call and every timer returns, every
\* invocation of the runner ends, with either a result or an error, never
\* both; the error is one of the taxonomy whenever the upstream's replies were
\* status reports and JSON documents.
C4_RunTerminates ==
    /\ [](Ended(run) =>
            \/ /\ run.pc = "returned"
               /\ run.result # "none"
               /\ run.error = "none"
            \/ /\ run.pc = "thrown"
               /\ run.result = "none"
               /\ run.error # "none"
               /\ (~Malformed(run.reply) => run.error \in Taxonomy))
    /\ (InFlight(run) ~> Ended(run))

C4_Witness ==
    /\ run.pc = "thrown"
    /\ run.error = TimedOut
    /\ run.status = "TIMED-OUT"
    /\ run.attempts = 30

\* C5: a submission answered with a non-success status makes the run throw
\* the upstream error after one submit call, with no retry, no status query
\* and no fetch call.
C5_SubmitFailureIsFatal ==
    (run.reply.to = "submit" /\ ~run.reply.ok) =>
        /\ run.pc = "thrown"
        /\ run.error = UpstreamError
        /\ Calls = <<1, 0, 0>>

C5_Witness ==
    /\ run.reply.to = "submit" /\ ~run.reply.ok
    /\ run.pc = "thrown"
    /\ run.error = UpstreamError

\* C6: when the job has reached SUCCEEDED and the read of the result set is
\* answered with a non-success status, the run throws the upstream error
\* instead of returning a result set.
C6_FetchFailureIsUpstreamError ==
    (run.status = "SUCCEEDED" /\ run.reply.to = "fetch" /\ ~run.reply.ok) =>
        /\ run.pc = "thrown"
        /\ run.error = UpstreamError

\* C7: without the credential every invocation throws the configuration
\* error before any outbound call, the configuration error is thrown for no
\* other reason, and the process still starts and still takes calls.
C7_NoTokenFailsAtCallTime ==
    /\ ~APIFY_API_TOKEN =>
            /\ run.pc = "idle" \/ (run.pc = "thrown" /\ run.error = ConfigurationError)
            /\ Calls = <<0, 0, 0>>
            /\ ~listening => ENABLED Listen
            /\ listening => ENABLED Call
    /\ run.error = ConfigurationError => ~APIFY_API_TOKEN

C7_Witness ==
    /\ ~APIFY_API_TOKEN
    /\ listening
    /\ run.pc = "thrown"
    /\ run.error = ConfigurationError
    /\ Calls = <<0, 0, 0>>

----------------------------------------------------------------------------
(* Properties of the cache *)

\* The last cache call was getCached(key).
LastGet == last.op = "get"

\* The entry the last getCached found had expired when it was looked up.
FoundExpired(call) == call.item # undefined /\ call.at > call.item.expiry

\* C8: after any sequence of set, get and clear calls and clock advances,
\* getCached(k) returns the stored data exactly when an entry for k exists
\* and now <= its expiry; past the expiry it returns null.
C8_GetNeverReturnsExpired ==
    LastGet =>
        /\ FoundExpired(last) => last.ret = null
        /\ last.ret = (IF last.item # undefined /\ last.at <= last.item.expiry
                         THEN last.item.data
                         ELSE null)

C8_Witness ==
    /\ LastGet
    /\ last.item # undefined
    /\ last.at = last.item.expiry + 1
    /\ last.ret = null

\* C9: getCached(k) past k's expiry returns null and deletes the entry; a
\* second getCached(k) finds nothing and returns null; and an entry leaves the
\* store only by a lookup of its own key past its expiry or by clear, never by
\* the clock alone.
C9_LazyEviction ==
    /\ []((LastGet /\ FoundExpired(last)) =>
            /\ last.ret = null
            /\ cache[last.key] = undefined)
    /\ []((LastGet /\ last.prev.op = "get" /\ last.prev.key = last.key
                   /\ FoundExpired(last.prev)) =>
            /\ last.item = undefined
            /\ last.ret = null
            /\ cache[last.key] = undefined)
    /\ [][\A k \in Keys :
            (cache[k] # undefined /\ cache'[k] = undefined) =>
                \/ last'.op = "clear"
                \/ /\ last'.op = "get"
                   /\ last'.key = k
                   /\ now > cache[k].expiry]_vars
    /\ [][now' # now => cache' = cache]_vars

C9_Witness ==
    /\ LastGet
    /\ last.item = undefined
    /\ last.ret = null
    /\ last.prev.op = "get"
    /\ last.prev.key = last.key
    /\ FoundExpired(last.prev)
    /\ cache[last.key] = undefined

\* The time to live of the running file, in milliseconds.
TtlMs == IF version = "1.0.0" THEN 300000 ELSE 600000

\* C10: whatever k held before (nothing, a live entry, an expired entry),
\* setCache(k, v) leaves k holding v with expiry now + ttl measured from that
\* call, and a getCached(k) that follows immediately returns v.
C10_SetThenGet ==
    /\ last.op = "set" =>
            cache[last.key] = [data |-> last.data, expiry |-> last.at + TtlMs]
    /\ (LastGet /\ last.prev.op = "set" /\ last.prev.key = last.key) =>
            /\ last.at = last.prev.at
            /\ last.ret = last.prev.data
            /\ cache[last.key] =
                    [data |-> last.prev.data, expiry |-> last.prev.at + TtlMs]

C10_Witness ==
    /\ LastGet
    /\ last.prev.op = "set"
    /\ last.prev.key = last.key
    /\ FoundExpired(last.prev)
    /\ last.prev.item.data # last.prev.data
    /\ last.ret = last.prev.data

\* The step is getCached(k) and finds an entry for k.
GetFinds(k) == last'.op = "get" /\ last'.key = k /\ cache[k] # undefined

\* C24: a getCached(k) that finds a live entry returns its data and leaves
\* the whole store as it was, the expiry of the entry included; the expiry
\* of an entry changes only when setCache(k) writes it anew, to now + ttl;
\* so a getCached(k) past the expiry the write gave returns null however
\* many lookups hit the entry before.
C24_AbsoluteTtl ==
    /\ [][\A k \in Keys :
            (GetFinds(k) /\ now <= cache[k].expiry) =>
                /\ last'.ret = cache[k].data
                /\ cache' = cache]_vars
    /\ [][\A k \in Keys :
            (cache'[k] # undefined /\ cache'[k] # cache[k]) =>
                /\ last'.op = "set"
                /\ last'.key = k
                /\ cache'[k].expiry = now + TtlMs]_vars
    /\ [][\A k \in Keys :
            (GetFinds(k) /\ now > cache[k].expiry) => last'.ret = null]_vars

\* The second of two lookups in a row that hit an entry in the last
\* millisecond of its life, and the entry is as the write left it.
C24_Witness ==
    /\ LastGet
    /\ last.prev.op = "get"
    /\ last.prev.key = last.key
    /\ last.prev.ret # null
    /\ last.ret # null
    /\ last.at = last.item.expiry
    /\ cache[last.key] = last.prev.item

----------------------------------------------------------------------------
(* Properties of the confidence score *)

\* The handler has computed the score of the posting it received.
Scored == prop.pc = "awaiting"

Posting == prop.body.project

\* The number of skills the posting requires.
RequiredCount == IF "skills" \in DOMAIN Posting THEN Len(Posting.skills) ELSE 0

\* x is a substring of y.
IsSubstring(x, y) == \E i \in 1..(Len(y) + 1), j \in 0..Len(y) : SubSeq(y, i, j) = x

\* The full capability set: the case-folded skills of all the offerings.
FullCapability ==
    IF "allOfferings" \in DOMAIN prop.body
        THEN UNION {IF "skills" \in DOMAIN prop.body.allOfferings[n]
                        THEN {toLowerCase(prop.body.allOfferings[n].skills[i]) :
                                i \in DOMAIN prop.body.allOfferings[n].skills}
                    ELSE {} :
                    n \in DOMAIN prop.body.allOfferings}
    ELSE {}

\* The number of required skills that overlap a capability in either direction.
MatchedCount ==
    Cardinality({i \in 1..RequiredCount :
        \E c \in FullCapability :
            \/ IsSubstring(toLowerCase(Posting.skills[i]), c)
            \/ IsSubstring(c, toLowerCase(Posting.skills[i]))})

ClientHas(field) == "client" \in DOMAIN Posting /\ field \in DOMAIN Posting.client
IsVerified == ClientHas("paymentVerified") /\ Posting.client.paymentVerified
IsHighSpender == ClientHas("totalSpent") /\ Posting.client.totalSpent > 10000
IsWellRated == ClientHas("feedbackRate") /\ Posting.client.feedbackRate >= 45
HasOffering == "offering" \in DOMAIN prop.body
RateSum == prop.body.offering.rateMin + prop.body.offering.rateMax

\* The budget rule as the specification words it: the max budget is at least
\* 0.8 x the average rate (hourly) or 15 x the average rate (fixed price).
BudgetRule ==
    /\ HasOffering
    /\ \/ Posting.isHourly /\ 10 * Posting.budgetMax >= 4 * RateSum
       \/ ~Posting.isHourly /\ 2 * Posting.budgetMax >= 15 * RateSum

\* The lines of the breakdown that carry the budget bonus.
BudgetLines ==
    {i \in DOMAIN prop.calc.confidenceBreakdown :
        prop.calc.confidenceBreakdown[i].points = 10}

\* r = round(25 * MatchedCount / max(RequiredCount, 1)), halves upward.
IsSkillBonus(r) ==
    LET n == IF RequiredCount > 1 THEN RequiredCount ELSE 1
    IN  /\ 2 * n * r - n <= 50 * MatchedCount
        /\ 50 * MatchedCount < 2 * n * r + n

Bonus(applies, pts) == IF applies THEN pts ELSE 0

\* C13: for every posting and every set of offerings, with skills, client
\* signals or the offering missing or present, the confidence is an integer
\* in [20, 95].
C13_ScoreBounds ==
    Scored => prop.calc.confidence \in 20..95

C13_Witness ==
    /\ Scored
    /\ prop.calc.confidence = 95
    /\ RequiredCount = MaxSkills
    /\ MatchedCount = RequiredCount
    /\ IsVerified /\ IsHighSpender /\ IsWellRated
    /\ BudgetLines # {}

\* C14: the confidence is 50 + round(25 * matched / max(required, 1)) + 5 if
\* payment is verified + 5 if total spent > 10000 + 5 if the rating >= 4.5 +
\* 10 if the budget bonus is awarded, clamped to [20, 95]; two matched skills
\* with every client signal and an aligned hourly budget score 95, and a
\* posting with no skills, no client signals and no offering scores 50.
C14_ScoreFormula ==
    Scored =>
        /\ \E r \in 0..25 :
            /\ IsSkillBonus(r)
            /\ LET total == 50 + r + Bonus(IsVerified, 5) + Bonus(IsHighSpender, 5)
                               + Bonus(IsWellRated, 5)
                               + Bonus(BudgetRule /\ Posting.budgetMax > 0, 10)
               IN  prop.calc.confidence =
                        (IF total < 20 THEN 20 ELSE IF total > 95 THEN 95 ELSE total)
        /\ (/\ RequiredCount = 2 /\ MatchedCount = 2
            /\ IsVerified
            /\ ClientHas("totalSpent") /\ Posting.client.totalSpent = 20000
            /\ ClientHas("feedbackRate") /\ Posting.client.feedbackRate = 48
            /\ Posting.isHourly /\ Posting.budgetMax > 0 /\ BudgetRule)
                => prop.calc.confidence = 95
        /\ (RequiredCount = 0 /\ "client" \notin DOMAIN Posting /\ ~HasOffering)
                => prop.calc.confidence = 50

C14_Witness ==
    /\ Scored
    /\ RequiredCount = 2 /\ MatchedCount = 1
    /\ ~IsVerified /\ ~IsHighSpender /\ IsWellRated
    /\ ~HasOffering
    /\ prop.calc.confidence = 68

\* C15 as claimed: the +10 budget bonus is awarded exactly when an offering
\* is supplied and the max budget reaches 0.8 x the average rate (hourly) or
\* 15 x the average rate (fixed price), and at most once.
C15_BudgetBonusAsClaimed ==
    Scored =>
        /\ BudgetLines # {} <=> BudgetRule
        /\ Cardinality(BudgetLines) <= 1

\* C15 as amended: for whole-number budgets and rates, the +10 budget bonus
\* is awarded exactly when an offering is supplied, the max budget is
\* greater than 0 and the max budget reaches 0.8 x the average rate (hourly)
\* or 15 x the average rate (fixed price); it is awarded at most once.
C15_BudgetBonus ==
    Scored =>
        /\ BudgetLines # {} <=> (BudgetRule /\ Posting.budgetMax > 0)
        /\ Cardinality(BudgetLines) <= 1

C15_Witness ==
    /\ Scored
    /\ HasOffering
    /\ ~Posting.isHourly
    /\ 2 * Posting.budgetMax - 15 * RateSum = 1
    /\ Cardinality(BudgetLines) = 1

\* The labels of the breakdown, in order.
BreakdownLabels ==
    [i \in DOMAIN prop.calc.confidenceBreakdown |-> prop.calc.confidenceBreakdown[i].label]

Label(applies, label) == IF applies THEN <<label>> ELSE <<>>

RECURSIVE Total(_)
Total(lines) == IF lines = <<>> THEN 0 ELSE Head(lines).points + Total(Tail(lines))

\* C16: the breakdown has one line for the skills bonus, which is always
\* applied, and one line for each other bonus that was applied and none for
\* one that was not, in the order skills, payment verified, high spender,
\* rating, budget; the lines carry the points that were added.
C16_BreakdownLines ==
    Scored =>
        /\ BreakdownLabels =
                <<"Skills match">>
                \o Label(IsVerified, "Payment verified")
                \o Label(IsHighSpender, "High spender")
                \o Label(IsWellRated, "Good rating")
                \o Label(BudgetRule /\ Posting.budgetMax > 0,
                         IF Posting.isHourly THEN "Budget aligns with our rates"
                         ELSE "Fixed budget adequate")
        /\ IsSkillBonus(prop.calc.confidenceBreakdown[1].points)
        /\ \A i \in 2..Len(prop.calc.confidenceBreakdown) :
                prop.calc.confidenceBreakdown[i].points =
                    (IF i \in BudgetLines THEN 10 ELSE 5)
        /\ 50 + Total(prop.calc.confidenceBreakdown) <= 95 =>
                prop.calc.confidence = 50 + Total(prop.calc.confidenceBreakdown)

C16_Witness ==
    /\ Scored
    /\ BreakdownLabels = <<"Skills match", "Payment verified", "High spender",
                           "Good rating", "Fixed budget adequate">>

----------------------------------------------------------------------------
(* Properties of the proposal handler *)

\* The backend has replied and the handler has answered the request.
Replied == prop.pc = "responded" /\ "reply" \in DOMAIN prop

\* The call of the backend succeeded and gave a text.
GaveText == Replied /\ prop.reply.kind = "text"

\* The text, once its wrapping is removed, is the text of a JSON value.
Parsed == GaveText /\ Parses(cleanText(prop.reply.text))

\* The call of the backend failed: a status that is not ok, or no reply at all.
CallFailed == Replied /\ prop.reply.kind \in {"status", "rejected"}

Sent == prop.response.json

\* The estimates that do not depend on the backend.  A supplied 0 counts as
\* not supplied.
HoursExpected ==
    IF "estimatedHours" \in DOMAIN Posting /\ Posting.estimatedHours # 0
        THEN Posting.estimatedHours
    ELSE 20
RateMinExpected ==
    IF HasOffering /\ prop.body.offering.rateMin # 0
        THEN prop.body.offering.rateMin ELSE 75
RateMaxExpected ==
    IF HasOffering /\ prop.body.offering.rateMax # 0
        THEN prop.body.offering.rateMax ELSE 120

\* The parts of the fallback result that C17 words the same way as the code.
FallbackTiersAndCosts ==
    /\ prop.response.status = 200
    /\ Sent.success = TRUE
    /\ Sent.analysis.complexity =
           (IF RequiredCount > 5 THEN "High"
            ELSE IF RequiredCount > 2 THEN "Medium" ELSE "Low")
    /\ Sent.analysis.confidenceScore = prop.calc.confidence
    /\ Sent.analysis.recommendation =
           (IF prop.calc.confidence >= 75 THEN "BID"
            ELSE IF prop.calc.confidence >= 60 THEN "CONSIDER" ELSE "REVIEW")
    /\ Sent.analysis.estimatedHours = HoursExpected
    /\ Sent.analysis.totalEstimateMin = HoursExpected * RateMinExpected
    /\ Sent.analysis.totalEstimateMax = HoursExpected * RateMaxExpected

\* C17 as claimed: when the call succeeds and the text cannot be parsed, the
\* result is a success with the fallback complexity and recommendation,
\* the hours supplied or 20, the cost range hours x rateMin / rateMax with
\* defaults 75 / 120, and a recommended rate that is the midpoint of the
\* offering's rates, or 100 without an offering.
C17_FallbackAsClaimed ==
    (GaveText /\ ~Parsed) =>
        /\ FallbackTiersAndCosts
        /\ IF HasOffering THEN 2 * Sent.analysis.recommendedRate = RateSum
           ELSE Sent.analysis.recommendedRate = 100

\* C17 as amended: the same, with a recommended rate that is the midpoint of
\* the offering's rates rounded to the nearest whole number, halves upward.
C17_Fallback ==
    (GaveText /\ ~Parsed) =>
        /\ FallbackTiersAndCosts
        /\ IF HasOffering
               THEN /\ 2 * Sent.analysis.recommendedRate - 1 <= RateSum
                    /\ RateSum < 2 * Sent.analysis.recommendedRate + 1
           ELSE Sent.analysis.recommendedRate = 100

C17_Witness ==
    /\ GaveText
    /\ prop.reply.text = <<Prose>>
    /\ RequiredCount = 5
    /\ Sent.analysis.complexity = "Medium"
    /\ Sent.analysis.recommendation = "BID"
    /\ Sent.analysis.recommendedRate = 98
    /\ Sent.analysis.estimatedHours = 50
    /\ Sent.analysis.totalEstimateMin = 3750
    /\ Sent.proposal = <<Prose>>

ParsedValue == JSONparse(cleanText(prop.reply.text))

\* The parsed reply holds a confidence breakdown of its own.
OwnBreakdown ==
    /\ IsObject(ParsedValue)
    /\ "analysis" \in DOMAIN ParsedValue.fields
    /\ "confidenceBreakdown" \in DOMAIN ParsedValue.fields.analysis

\* C19: for every reply of the backend that parses as structured data, the
\* result carries a confidence breakdown, and when the parsed reply omits
\* it the breakdown of the result is the one the score computed.
C19_BreakdownCarried ==
    Parsed =>
        /\ "analysis" \in DOMAIN Sent
        /\ "confidenceBreakdown" \in DOMAIN Sent.analysis
        /\ ~OwnBreakdown => Sent.analysis.confidenceBreakdown = prop.calc.confidenceBreakdown

\* C20: with the credential present, whatever the backend does, the result
\* holds a proposal text and an analysis with complexity, recommendation,
\* the estimate fields, the confidence score and the confidence breakdown.
C20_StructurallyComplete ==
    Replied =>
        /\ "proposal" \in DOMAIN Sent
        /\ "analysis" \in DOMAIN Sent
        /\ {"complexity", "recommendation", "estimatedHours", "recommendedRate",
            "totalEstimateMin", "totalEstimateMax", "confidenceScore",
            "confidenceBreakdown"} \subseteq DOMAIN Sent.analysis

----------------------------------------------------------------------------
(* Properties of concurrent searches *)

\* Request i looked its key up in the cache and found nothing to serve.
Missed(i) == req[i].pc # "idle" /\ req[i].keyword # <<>> /\ ~req[i].hit

\* Request i ran the runner to its end and stored and sent the result.
Stored(i) == Missed(i) /\ req[i].pc = "responded" /\ req[i].response.status = 200

\* Of two requests that stored a result, the one that completed last.
LastStored == CHOOSE i \in DOMAIN req : \A j \in DOMAIN req : req[j].order <= req[i].order

\* C11: with the token set, every request that misses the cache invokes the
\* runner on its own: it makes its own submission, the run ids of two
\* requests differ, and a request that succeeds has polled and fetched on
\* its own; once two requests for the same key have both completed, the
\* cache entry is the result of the one that completed last, with the
\* expiry counted from that completion.
C11_NoSingleFlight ==
    /\ \A i \in DOMAIN req :
        /\ (APIFY_API_TOKEN /\ Missed(i)) => req[i].run.submitCalls = 1
        /\ Stored(i) =>
            /\ req[i].runId # 0
            /\ req[i].run.statusCalls >= 1
            /\ req[i].run.fetchCalls = 1
    /\ \A i, j \in DOMAIN req :
        (i # j /\ req[i].runId # 0 /\ req[j].runId # 0) => req[i].runId # req[j].runId
    /\ (\A i \in DOMAIN req : Stored(i)) =>
        cache["search:react"] =
            [data |-> [success |-> TRUE,
                       keyword |-> req[LastStored].keyword,
                       jobs |-> req[LastStored].run.result,
                       timestamp |-> req[LastStored].at],
             expiry |-> req[LastStored].at + 600000]

\* Two overlapping requests: the first to submit completes last and wins.
C11_Witness ==
    /\ Stored(1) /\ Stored(2)
    /\ req[1].runId = 1 /\ req[2].runId = 2
    /\ req[2].order < req[1].order
    /\ req[2].at < req[1].at
    /\ req[1].run.result = "jobsA" /\ req[2].run.result = "jobsB"
    /\ req[1].keyword = React /\ req[2].keyword = react
    /\ cache["search:react"].data.jobs = "jobsA"
    /\ cache["search:react"].expiry = req[1].at + 600000

----------------------------------------------------------------------------
(* Properties of the batch *)

\* The batch request carried a list of keywords and has been answered.
BatchDone == batch.pc = "responded" /\ "keywords" \in DOMAIN batch.body

\* The fetch of keyword i failed: it was rejected, or its reply had a status
\* that is not ok, or a body that cannot be parsed.
FeedFailed(i) ==
    /\ "items" \in DOMAIN batch
    /\ "reply" \in DOMAIN batch.items[i]
    /\ \/ batch.items[i].reply.kind = "rejected"
       \/ ~batch.items[i].reply.ok
       \/ batch.items[i].reply.body = "garbage"

\* C12: a batch of n <= 10 keywords does not fail as a whole when fetches
\* fail; the result has n entries, one per keyword in order; the entry of a
\* failed fetch has an error field and no data, every other entry has a
\* data field and no error, whatever happened to the other fetches.
C12_ScatterJoin ==
    BatchDone =>
        /\ batch.response.status = 200
        /\ "results" \in DOMAIN batch.response.json
        /\ Len(batch.response.json.results) = Len(batch.body.keywords)
        /\ \A i \in DOMAIN batch.body.keywords :
            LET entry == batch.response.json.results[i]
            IN  /\ entry.keyword = batch.body.keywords[i]
                /\ "error" \in DOMAIN entry <=> FeedFailed(i)
                /\ "data" \in DOMAIN entry <=> ~FeedFailed(i)

----------------------------------------------------------------------------
(* Properties of the job routes *)

\* The request looked its key up and the entry it found had not expired.
FoundLive == req[1].found # undefined /\ now <= req[1].found.expiry

\* C21: a search, category or batch request that finds an unexpired entry
\* under its cache key is answered from that entry, and no submit, status or
\* fetch call is made for it; the runner is invoked only when the lookup
\* found no entry or an expired one.
C21_HitShortCircuits ==
    /\ (req[1].pc # "received" /\ FoundLive) =>
            /\ req[1].pc = "responded"
            /\ req[1].response =
                    Respond(200, Spread(req[1].found.data, [cached |-> TRUE]))
            /\ run = IdleRun
    /\ run # IdleRun =>
            /\ req[1].key = cacheKey(req[1].endpoint, req[1].params)
            /\ ~FoundLive

\* A category request answered from an entry in the last millisecond of its
\* life.
C21_Witness ==
    /\ req[1].pc = "responded"
    /\ req[1].endpoint = "category"
    /\ FoundLive
    /\ now = req[1].found.expiry
    /\ Calls = <<0, 0, 0>>

\* The handler of the request has run to its end.
Finished == req[1].pc \in {"responded", "uncaught"}

\* The JSON bodies the handlers send: a result, or an error with its status.
WellFormed(response) ==
    \/ response.status = 200 /\ Has(response.json, "success")
    \/ response.status \in {400, 500} /\ Has(response.json, "error")

\* C22: every search, category and batch request, on every success and
\* failure path (missing or malformed request fields, configuration error,
\* upstream error, failed job, timeout), receives a well-formed response
\* envelope and never ends in an uncaught exception.
C22_OneEnvelope ==
    Finished =>
        /\ req[1].pc = "responded"
        /\ WellFormed(req[1].response)

\* The step in which the handler answers with the error of the runner.
RunnerFailure ==
    /\ req[1].pc \in {"received", "running"}
    /\ req'[1].pc = "responded"
    /\ req'[1].response.status = 500

\* No entry is written: every key holds what it held, or has lost an entry
\* that had expired.
NothingWritten ==
    \A k \in DOMAIN cache :
        \/ cache'[k] = cache[k]
        \/ cache'[k] = undefined /\ now > cache[k].expiry

\* Every entry of the cache holds a result set.
OnlyResultsStored ==
    \A k \in DOMAIN cache : cache[k] # undefined => cache[k].data.jobs \in Payloads

\* C23: a search, category or batch request that ends in a failure of the
\* runner writes no cache entry, and an entry is written only with the
\* result set of a run, so that no later hit can replay an error.
C23_FailuresNotCached ==
    /\ [][RunnerFailure => NothingWritten]_vars
    /\ []OnlyResultsStored

\* The request was answered from the entry an earlier request stored.
ServedFromCache == req[1].pc = "responded" /\ Has(req[1].response.json, "cached")

\* The two lists hold the same keywords the same number of times.
SameMultiset(a, b) ==
    \A x \in {a[i] : i \in DOMAIN a} \cup {b[i] : i \in DOMAIN b} :
        Cardinality({i \in DOMAIN a : a[i] = x}) = Cardinality({i \in DOMAIN b : b[i] = x})

\* C25: a request is served from the entry of an earlier request only if
\* both are for the same endpoint and have the same normalized parameter:
\* the same keyword up to case for search, the same category for category,
\* the same multiset of keywords for batch.  The stored reply repeats the
\* parameter of the request that stored it in the field of its endpoint.
C25_KeyInjective ==
    ServedFromCache =>
        LET stored == req[1].response.json
            asked == req[1].params
        IN  CASE req[1].endpoint = "search" ->
                    /\ Has(stored, "keyword")
                    /\ toLowerCase(stored.keyword) = toLowerCase(asked.keyword)
              [] req[1].endpoint = "category" ->
                    /\ Has(stored, "category")
                    /\ stored.category = asked.category
              [] req[1].endpoint = "batch" ->
                    /\ Has(stored, "keywords")
                    /\ SameMultiset(stored.keywords, asked.keywords)

====
